---------------------------- MODULE Spec2Model ----------------------------
(***************************************************************************)
(* Books-Backend (src/src/main.rs): an actix-web service that keeps a book *)
(* catalog in one JSON file and a credential list in another.              *)
(*                                                                         *)
(* Granularity of the model.  The HTTP workers run handlers in parallel.   *)
(* A handler takes the Mutex<AppState> only to clone the file path, then   *)
(* drops the guard; every file access happens after that.  fs::write is    *)
(* File::create (open with truncation) followed by write_all; each of the  *)
(* two is one step here and the file can be observed in between.           *)
(* fs::read_to_string is one step.  An Option<T> is a sequence of length   *)
(* 0 (None) or 1 (Some).  A Vec is a sequence.                             *)
(***************************************************************************)
EXTENDS Integers, Sequences, FiniteSets, TLC

(* ------------------------------ bounds -------------------------------- *)

\* requests accepted by the server in one behaviour
MaxOps == 2
\* records in the catalog file the service is started with
MaxInitLen == 2
\* calls of save_user in one behaviour of the credential specification
MaxRegs == 2
\* records in a credential file the program is started with
MaxInitUsers == 1

(* ------------------------------ values -------------------------------- *)

Procs == {"w1", "w2"}

RustBasics ==
    [id |-> 1, title |-> "Rust Basics", content |-> "c", tags |-> <<"rust", "async">>]

RustBasicsV2 ==
    [id |-> 1, title |-> "Rust Basics v2", content |-> "c", tags |-> <<"rust", "async">>]

Parallelism ==
    [id |-> 2, title |-> "Parallelism", content |-> "cc", tags |-> <<"rust", "parallel">>]

\* the Book values the bodies of POST /books are drawn from (struct Book)
Books == {RustBasics, RustBasicsV2, Parallelism}

\* the Book values a seeded catalog file holds, each any number of times
SeedBooks == {RustBasics, Parallelism}

\* Book used to fill the book field of a request that carries no body
NoBook == [id |-> 0, title |-> "", content |-> "", tags |-> <<>>]

\* path parameters of GET /books/id/{id}
PathIds == {1, 2, 999}

\* BookQuery values of GET /books/search
QueryIds == {<<>>, <<1>>, <<999>>}

QueryTags == {<<>>, <<"rust">>, <<"parallel">>}

Usernames == {"user1", "alice"}

Passwords == {"password", "s3cret"}

\* salts SaltString::generate can return
Salts == {"s1", "s2"}

(* --------------------------- pure helpers ------------------------------ *)

Max(a, b) == IF a >= b THEN a ELSE b

RECURSIVE Digits(_)
\* number of decimal digits serde_json prints for an unsigned integer
Digits(n) == IF n < 10 THEN 1 ELSE 1 + Digits(n \div 10)

\* bytes of one element of the pretty-printed tags array: 6 spaces, 2 quotes
TagBytes(t) == 8 + Len(t)

RECURSIVE TagsSum(_, _)
\* bytes of the first n elements of the tags array
TagsSum(tags, n) == IF n = 0 THEN 0 ELSE TagBytes(tags[n]) + TagsSum(tags, n - 1)

\* bytes of the pretty-printed "tags" member
TagsBytes(tags) ==
    IF Len(tags) = 0
    THEN 14
    ELSE 13 + 1 + TagsSum(tags, Len(tags)) + 2 * (Len(tags) - 1) + 6

\* bytes of one pretty-printed Book object at indentation 2
BookBytes(b) ==
    4 + (10 + Digits(b.id)) + 2 + (15 + Len(b.title)) + 2
      + (17 + Len(b.content)) + 2 + TagsBytes(b.tags) + 4

RECURSIVE BooksSum(_, _)
\* bytes of the first n objects of the array
BooksSum(books, n) == IF n = 0 THEN 0 ELSE BookBytes(books[n]) + BooksSum(books, n - 1)

\* length of serde_json::to_string_pretty(&books)
PrettyLen(books) ==
    IF Len(books) = 0
    THEN 2
    ELSE 2 + BooksSum(books, Len(books)) + 2 * (Len(books) - 1) + 2

\* Iterator::position(|b| b.id == id): the first index, as an Option
Position(books, id) ==
    LET hits == {i \in 1..Len(books) : books[i].id = id}
    IN  IF hits = {} THEN <<>> ELSE <<CHOOSE i \in hits : \A j \in hits : i <= j>>

\* a bug: the position is never found, every upsert pushes
AlwaysPush(books, new_book) == Append(books, new_book)

\* a bug: the record found is removed and the new one pushed at the end
MoveToEnd(books, new_book) ==
    LET existing_book_pos == Position(books, new_book.id)
    IN  IF existing_book_pos # <<>>
        THEN Append(SubSeq(books, 1, existing_book_pos[1] - 1)
                      \o SubSeq(books, existing_book_pos[1] + 1, Len(books)),
                    new_book)
        ELSE Append(books, new_book)

\* a bug: insert(0, ..) for push, a new record goes to the front
PushFront(books, new_book) ==
    LET existing_book_pos == Position(books, new_book.id)
    IN  IF existing_book_pos # <<>>
        THEN [books EXCEPT ![existing_book_pos[1]] = new_book]
        ELSE <<new_book>> \o books

\* a bug: every record with the id is overwritten, not the first alone
ReplaceAll(books, new_book) ==
    IF Position(books, new_book.id) # <<>>
    THEN [i \in 1..Len(books) |-> IF books[i].id = new_book.id THEN new_book ELSE books[i]]
    ELSE Append(books, new_book)

\* add_or_update_book, lines 106-115: replace at the position, or push
AddOrUpdate(books, new_book) ==
    LET existing_book_pos == Position(books, new_book.id)
    IN  IF existing_book_pos # <<>>
        THEN [books EXCEPT ![existing_book_pos[1]] = new_book]
        ELSE Append(books, new_book)

\* Vec<String>::contains
Contains(tags, tag) == \E i \in 1..Len(tags) : tags[i] = tag

\* a bug: || for && between the two conditions of the closure
QueryKeepsEither(b, qid, qtag) ==
    \/ (qid = <<>> \/ b.id = qid[1])
    \/ (qtag = <<>> \/ Contains(b.tags, qtag[1]))

\* the closure of get_book_with_query, lines 136-139
QueryKeeps(b, qid, qtag) ==
    /\ (qid = <<>> \/ b.id = qid[1])
    /\ (qtag = <<>> \/ Contains(b.tags, qtag[1]))

RECURSIVE FilterBooks(_, _, _)
\* get_book_with_query, lines 135-140: into_iter().filter(..).collect()
FilterBooks(books, qid, qtag) ==
    IF books = <<>>
    THEN <<>>
    ELSE IF QueryKeeps(Head(books), qid, qtag)
         THEN <<Head(books)>> \o FilterBooks(Tail(books), qid, qtag)
         ELSE FilterBooks(Tail(books), qid, qtag)

\* a bug: take_while for filter, the scan stops at the first other id
FilterByIdTakeWhile(books, id) ==
    LET n == IF \E i \in 1..Len(books) : books[i].id # id
             THEN (CHOOSE i \in 1..Len(books) :
                      books[i].id # id /\ \A j \in 1..(i - 1) : books[j].id = id) - 1
             ELSE Len(books)
    IN  SubSeq(books, 1, n)

\* a bug: find for filter, only the first record with the id is returned
FilterByIdFirst(books, id) ==
    LET pos == Position(books, id)
    IN  IF pos = <<>> THEN <<>> ELSE <<books[pos[1]]>>

RECURSIVE FilterById(_, _)
\* get_book_by_id, lines 155-157: into_iter().filter(|b| b.id == id).collect()
FilterById(books, id) ==
    IF books = <<>>
    THEN <<>>
    ELSE IF Head(books).id = id
         THEN <<Head(books)>> \o FilterById(Tail(books), id)
         ELSE FilterById(Tail(books), id)

(* ------------------------------ files ---------------------------------- *)

\* A file: whether it exists, the last buffer written from offset 0 (head),
\* its length in bytes (len), and whether its bytes are what an unfinished or
\* overlapped fs::write left behind (torn).
MissingFile == [exists |-> FALSE, head |-> <<>>, len |-> 0, torn |-> FALSE]

\* a file holding exactly the serialization of books
FileOf(books) ==
    [exists |-> TRUE, head |-> books, len |-> PrettyLen(books), torn |-> FALSE]

\* a seeded file whose text is not a JSON array of books
MalformedFile == [exists |-> TRUE, head |-> <<>>, len |-> 1, torn |-> FALSE]

\* serde_json::from_str succeeds: the text is exactly one serialized array
Parses(f) == f.exists /\ f.len = PrettyLen(f.head)

\* File::create on the path: the file exists and is empty
Truncated(f) == [exists |-> TRUE, head |-> <<>>, len |-> 0, torn |-> TRUE]

\* write_all(contents) at offset 0 of a descriptor opened by File::create:
\* bytes beyond the buffer that another writer left stay in the file
Written(f, books) ==
    LET n == PrettyLen(books)
    IN  [exists |-> TRUE, head |-> books, len |-> Max(f.len, n), torn |-> f.len > n]

BookError == {"FileReadError", "JsonParseError"}

\* BookError::from(std::io::Error), line 50: the #[from] conversion that ?
\* applies to an io::Error, whichever call returned it
FromIoError == "FileReadError"

\* a bug: unwrap_or_default, a failed read yields an empty catalog
ReadOrDefault(f) ==
    IF f.exists /\ Parses(f)
    THEN [ok |-> TRUE, err |-> "", books |-> f.head]
    ELSE [ok |-> TRUE, err |-> "", books |-> <<>>]

\* read_books_from_file: Result<Vec<Book>, BookError>
ReadBooksFromFile(f) ==
    IF ~f.exists
    THEN [ok |-> FALSE, err |-> FromIoError, books |-> <<>>]
    ELSE IF ~Parses(f)
         THEN [ok |-> FALSE, err |-> "JsonParseError", books |-> <<>>]
         ELSE [ok |-> TRUE, err |-> "", books |-> f.head]

RECURSIVE SeqsUpTo(_, _)
\* all sequences over S of length at most n
SeqsUpTo(S, n) ==
    IF n = 0
    THEN {<<>>}
    ELSE LET shorter == SeqsUpTo(S, n - 1)
         IN  shorter \cup {Append(s, x) : s \in shorter, x \in S}

(* ------------------------- credential files ---------------------------- *)

\* hash_password: the PHC string argon2 derives from the password and the salt
HashPassword(password, salt) ==
    "$argon2id$v=19$" \o salt \o "$H(" \o password \o ")"

\* struct User values a seeded credential file holds
SeedUsers ==
    {[username |-> u, password |-> HashPassword(pw, s)] :
        u \in Usernames, pw \in Passwords, s \in Salts}

\* A credential file: whether it exists, whether its bytes can be read as
\* UTF-8 text, whether that text deserializes into Vec<User>, and the users it
\* holds when it does.
MissingUsers == [exists |-> FALSE, text |-> FALSE, wellformed |-> FALSE, users |-> <<>>]

\* a file whose bytes are not UTF-8, so that read_to_string returns an Err
NonTextUsers == [exists |-> TRUE, text |-> FALSE, wellformed |-> FALSE, users |-> <<>>]

MalformedUsers == [exists |-> TRUE, text |-> TRUE, wellformed |-> FALSE, users |-> <<>>]

UsersFileOf(users) ==
    [exists |-> TRUE, text |-> TRUE, wellformed |-> TRUE, users |-> users]

\* load_users, line 169: read_to_string(..).unwrap() panics
LoadUsersPanics(f) == f.exists /\ ~f.text

\* load_users, lines 162-172, applied to the file at the path it opens
LoadUsers(f) ==
    IF ~f.exists
    THEN <<>>
    ELSE IF ~f.wellformed THEN <<>> ELSE f.users

(* ------------------------------ state ---------------------------------- *)

VARIABLES
    file,            \* the file at AppState.data_file (src/data/book.json)
    lock,            \* holder of Mutex<AppState>, or "free"
    pc,              \* pc[p]: where worker p is in its handler
    req,             \* req[p]: the request worker p is serving
    books,           \* books[p]: the handler's local Vec<Book>
    res,             \* res[p]: the response the handler produced
    ops,             \* requests accepted so far
    booted,          \* main has reached HttpServer::run
    users_json,      \* the file "users.json" that load_users opens
    src_users_json,  \* the file "src/users/users.json" that save_user writes
    new_user,        \* the User pushed by the last save_user
    regs,            \* calls of save_user so far
    panicked,        \* the function whose unwrap or expect ended the process, or ""
    seed,            \* history: the catalog file the service started with
    snap,            \* history: snap[p] is the result of p's read_books_from_file
    tornRead,        \* history: p's read met a file in the middle of a write
    started,         \* history: the upserts answered 200 when p's request began
    acked,           \* history: the books of the upserts answered 200, in order
    last             \* history: the request and response last returned

vars ==
    <<file, lock, pc, req, books, res, ops, booted, users_json, src_users_json,
      new_user, regs, panicked, seed, snap, tornRead, started, acked, last>>

bookVars ==
    <<file, lock, pc, req, books, res, ops, seed, snap, tornRead, started, acked, last>>

userVars == <<users_json, src_users_json, new_user, regs, panicked>>

NoReq == [kind |-> "none", id |-> <<>>, tag |-> <<>>, book |-> NoBook]

NoRes == [status |-> 0, err |-> "", body |-> <<>>]

NoRead == [ok |-> FALSE, err |-> "", books |-> <<>>]

NoUser == [username |-> "", password |-> ""]

\* the requests a client can send
Requests ==
    {[kind |-> "list", id |-> <<>>, tag |-> <<>>, book |-> NoBook]}
    \cup {[kind |-> "by_id", id |-> <<i>>, tag |-> <<>>, book |-> NoBook] : i \in PathIds}
    \cup {[kind |-> "query", id |-> i, tag |-> t, book |-> NoBook] :
            i \in QueryIds, t \in QueryTags}
    \cup {[kind |-> "upsert", id |-> <<>>, tag |-> <<>>, book |-> b] : b \in Books}

\* HttpResponse::Ok().json(body)
Ok(body) == [status |-> 200, err |-> "", body |-> body]

\* BookError::error_response: both variants answer 500
ErrorResponse(err) == [status |-> 500, err |-> err, body |-> <<>>]

\* the catalog files the service can be started with
SeedFiles ==
    {MissingFile, MalformedFile} \cup {FileOf(c) : c \in SeqsUpTo(SeedBooks, MaxInitLen)}

InitBooks(f) ==
    /\ file = f
    /\ seed = f
    /\ lock = "free"
    /\ pc = [p \in Procs |-> "idle"]
    /\ req = [p \in Procs |-> NoReq]
    /\ books = [p \in Procs |-> <<>>]
    /\ res = [p \in Procs |-> NoRes]
    /\ snap = [p \in Procs |-> NoRead]
    /\ tornRead = [p \in Procs |-> FALSE]
    /\ started = [p \in Procs |-> 0]
    /\ ops = 0
    /\ acked = <<>>
    /\ last = [req |-> NoReq, res |-> NoRes]
    /\ booted = FALSE

\* main, lines 190-197: the state when AppState has been constructed
Init ==
    /\ \E f \in SeedFiles : InitBooks(f)
    /\ users_json = MissingUsers
    /\ src_users_json = MissingUsers
    /\ new_user = NoUser
    /\ regs = 0
    /\ panicked = ""

(* --------------------------- save_user --------------------------------- *)

\* save_user, lines 174-186, with the salt hash_password drew and whether
\* fs::write succeeded; the process ends where load_users or expect panics
SaveUser(username, password, salt, written) ==
    LET hashed_password == HashPassword(password, salt)
        pushed == [username |-> username, password |-> hashed_password]
        users == Append(LoadUsers(users_json), pushed)
    IN  /\ panicked = ""
        /\ new_user' = pushed
        /\ regs' = regs + 1
        /\ IF LoadUsersPanics(users_json)
           THEN panicked' = "load_users" /\ UNCHANGED src_users_json
           ELSE IF ~written
                THEN panicked' = "save_user" /\ UNCHANGED src_users_json
                ELSE src_users_json' = UsersFileOf(users) /\ UNCHANGED panicked
        /\ UNCHANGED users_json

\* main, line 199: save_user("user1", "password") before the server starts;
\* the server starts when it returned
Boot ==
    /\ ~booted
    /\ \E salt \in Salts, written \in BOOLEAN : SaveUser("user1", "password", salt, written)
    /\ booted' = (panicked' = "")
    /\ UNCHANGED bookVars

(* ---------------------------- handlers --------------------------------- *)

\* data.lock().unwrap() at the head of every handler (lines 81, 100, 129, 148),
\* for a server that accepts n requests
LockUpTo(p, r, n) ==
    /\ booted
    /\ pc[p] = "idle"
    /\ ops < n
    /\ lock = "free"
    /\ lock' = p
    /\ pc' = [pc EXCEPT ![p] = "locked"]
    /\ req' = [req EXCEPT ![p] = r]
    /\ ops' = ops + 1
    /\ started' = [started EXCEPT ![p] = Len(acked)]
    /\ UNCHANGED <<file, books, res, seed, snap, tornRead, acked, last, booted>>
    /\ UNCHANGED userVars

Lock(p, r) == LockUpTo(p, r, MaxOps)

\* a bug: the guard is bound for the whole handler body and never dropped
KeepGuard(p) ==
    /\ pc[p] = "locked"
    /\ lock = p
    /\ pc' = [pc EXCEPT ![p] = "path"]
    /\ UNCHANGED <<file, lock, req, books, res, ops, seed, snap, tornRead, started, acked, last, booted>>
    /\ UNCHANGED userVars

\* the end of the block that clones data_file: the MutexGuard is dropped
\* (lines 83, 102, 131, 150)
Unlock(p) ==
    /\ pc[p] = "locked"
    /\ lock = p
    /\ lock' = "free"
    /\ pc' = [pc EXCEPT ![p] = "path"]
    /\ UNCHANGED <<file, req, books, res, ops, seed, snap, tornRead, started, acked, last, booted>>
    /\ UNCHANGED userVars

\* the part the three read handlers share: read the file and answer with the
\* body the handler computes from the books read, or with the error
Answer(p, kind, body) ==
    LET r == ReadBooksFromFile(file)
    IN  /\ pc[p] = "path"
        /\ req[p].kind = kind
        /\ snap' = [snap EXCEPT ![p] = r]
        /\ tornRead' = [tornRead EXCEPT ![p] = file.torn]
        /\ res' = [res EXCEPT ![p] = IF r.ok THEN Ok(body) ELSE ErrorResponse(r.err)]
        /\ pc' = [pc EXCEPT ![p] = "done"]
        /\ UNCHANGED <<file, lock, req, books, ops, seed, started, acked, last, booted>>
        /\ UNCHANGED userVars

\* a bug: get_books creates the catalog file when it finds none
GetBooksCreates(p) ==
    LET r == ReadBooksFromFile(file)
    IN  /\ pc[p] = "path"
        /\ req[p].kind = "list"
        /\ file' = IF file.exists THEN file ELSE FileOf(<<>>)
        /\ snap' = [snap EXCEPT ![p] = r]
        /\ tornRead' = [tornRead EXCEPT ![p] = file.torn]
        /\ res' = [res EXCEPT ![p] = IF file.exists /\ ~r.ok THEN ErrorResponse(r.err) ELSE Ok(r.books)]
        /\ pc' = [pc EXCEPT ![p] = "done"]
        /\ UNCHANGED <<lock, req, books, ops, seed, started, acked, last, booted>>
        /\ UNCHANGED userVars

\* get_books, lines 85-86
GetBooks(p) ==
    /\ req[p].kind = "list"
    /\ Answer(p, "list", ReadBooksFromFile(file).books)

\* get_book_with_query, lines 133-142
GetBookWithQuery(p) ==
    /\ req[p].kind = "query"
    /\ Answer(p, "query", FilterBooks(ReadBooksFromFile(file).books, req[p].id, req[p].tag))

\* get_book_by_id, lines 151-159
GetBookById(p) ==
    /\ req[p].kind = "by_id"
    /\ Answer(p, "by_id", FilterById(ReadBooksFromFile(file).books, req[p].id[1]))

\* add_or_update_book, lines 104-115: read the catalog, replace or push
ReadAndUpdate(p) ==
    LET r == ReadBooksFromFile(file)
    IN  /\ pc[p] = "path"
        /\ req[p].kind = "upsert"
        /\ snap' = [snap EXCEPT ![p] = r]
        /\ tornRead' = [tornRead EXCEPT ![p] = file.torn]
        /\ IF r.ok
           THEN /\ books' = [books EXCEPT ![p] = AddOrUpdate(r.books, req[p].book)]
                /\ pc' = [pc EXCEPT ![p] = "updated"]
                /\ UNCHANGED res
           ELSE /\ res' = [res EXCEPT ![p] = ErrorResponse(r.err)]
                /\ pc' = [pc EXCEPT ![p] = "done"]
                /\ UNCHANGED books
        /\ UNCHANGED <<file, lock, req, ops, seed, started, acked, last, booted>>
        /\ UNCHANGED userVars

\* write_books_to_file, line 92, first half: fs::write opens the path with
\* truncation
CreateFile(p) ==
    /\ pc[p] = "updated"
    /\ file' = Truncated(file)
    /\ pc' = [pc EXCEPT ![p] = "created"]
    /\ UNCHANGED <<lock, req, books, res, ops, seed, snap, tornRead, started, acked, last, booted>>
    /\ UNCHANGED userVars

\* write_books_to_file, line 92, second half: write_all of the serialized Vec
WriteAll(p) ==
    /\ pc[p] = "created"
    /\ file' = Written(file, books[p])
    /\ pc' = [pc EXCEPT ![p] = "written"]
    /\ UNCHANGED <<lock, req, books, res, ops, seed, snap, tornRead, started, acked, last, booted>>
    /\ UNCHANGED userVars

\* write_books_to_file, line 92, when File::create returns an io::Error: the
\* file is left as it is and add_or_update_book returns the error (line 118)
CreateFileFails(p) ==
    /\ pc[p] = "updated"
    /\ res' = [res EXCEPT ![p] = ErrorResponse(FromIoError)]
    /\ pc' = [pc EXCEPT ![p] = "done"]
    /\ UNCHANGED <<file, lock, req, books, ops, seed, snap, tornRead, started, acked, last, booted>>
    /\ UNCHANGED userVars

\* the file when write_all of the serialized buf stopped with an io::Error
\* after k bytes: the bytes are as before when none was written or when the
\* file began with the same text, and no JSON array otherwise
PartlyWritten(f, buf, k) ==
    IF k = 0 \/ (f.head = buf /\ f.len >= PrettyLen(buf))
    THEN f
    ELSE [exists |-> TRUE, head |-> <<>>, len |-> Max(f.len, k), torn |-> TRUE]

\* write_books_to_file, line 92, when write_all returns an io::Error: before
\* the first byte or before the last one
WriteAllFails(p) ==
    /\ pc[p] = "created"
    /\ \E k \in {0, PrettyLen(books[p]) - 1} : file' = PartlyWritten(file, books[p], k)
    /\ res' = [res EXCEPT ![p] = ErrorResponse(FromIoError)]
    /\ pc' = [pc EXCEPT ![p] = "done"]
    /\ UNCHANGED <<lock, req, books, ops, seed, snap, tornRead, started, acked, last, booted>>
    /\ UNCHANGED userVars

\* add_or_update_book, line 120: Ok(HttpResponse::Ok().json(books))
Respond(p) ==
    /\ pc[p] = "written"
    /\ res' = [res EXCEPT ![p] = Ok(books[p])]
    /\ acked' = Append(acked, req[p].book)
    /\ pc' = [pc EXCEPT ![p] = "done"]
    /\ UNCHANGED <<file, lock, req, books, ops, seed, snap, tornRead, started, last, booted>>
    /\ UNCHANGED userVars

\* the response leaves the handler and its locals are dropped
Finish(p) ==
    /\ pc[p] = "done"
    /\ pc' = [pc EXCEPT ![p] = "idle"]
    /\ req' = [req EXCEPT ![p] = NoReq]
    /\ books' = [books EXCEPT ![p] = <<>>]
    /\ res' = [res EXCEPT ![p] = NoRes]
    /\ snap' = [snap EXCEPT ![p] = NoRead]
    /\ tornRead' = [tornRead EXCEPT ![p] = FALSE]
    /\ started' = [started EXCEPT ![p] = 0]
    /\ UNCHANGED <<file, lock, ops, seed, acked, booted>>
    /\ UNCHANGED userVars

\* Finish under concurrent service: the history of returned responses is not kept
Return(p) == Finish(p) /\ UNCHANGED last

Next ==
    \/ Boot
    \/ \E p \in Procs, r \in Requests : Lock(p, r)
    \/ \E p \in Procs : Unlock(p)
    \/ \E p \in Procs : GetBooks(p)
    \/ \E p \in Procs : GetBookWithQuery(p)
    \/ \E p \in Procs : GetBookById(p)
    \/ \E p \in Procs : ReadAndUpdate(p)
    \/ \E p \in Procs : CreateFile(p)
    \/ \E p \in Procs : WriteAll(p)
    \/ \E p \in Procs : CreateFileFails(p)
    \/ \E p \in Procs : WriteAllFails(p)
    \/ \E p \in Procs : Respond(p)
    \/ \E p \in Procs : Return(p)

\* the service: workers serve requests in parallel
Spec == Init /\ [][Next]_vars

\* the service for one request more than Spec accepts
NextLong ==
    \/ Boot
    \/ \E p \in Procs, r \in Requests : LockUpTo(p, r, MaxOps + 1)
    \/ \E p \in Procs : Unlock(p)
    \/ \E p \in Procs : GetBooks(p)
    \/ \E p \in Procs : GetBookWithQuery(p)
    \/ \E p \in Procs : GetBookById(p)
    \/ \E p \in Procs : ReadAndUpdate(p)
    \/ \E p \in Procs : CreateFile(p)
    \/ \E p \in Procs : WriteAll(p)
    \/ \E p \in Procs : CreateFileFails(p)
    \/ \E p \in Procs : WriteAllFails(p)
    \/ \E p \in Procs : Respond(p)
    \/ \E p \in Procs : Return(p)

\* one catalog file of each kind: missing, malformed, empty, one record
LiveSeedFiles == {MissingFile, MalformedFile, FileOf(<<>>), FileOf(<<RustBasics>>)}

InitLive ==
    /\ \E f \in LiveSeedFiles : InitBooks(f)
    /\ users_json = MissingUsers
    /\ src_users_json = MissingUsers
    /\ new_user = NoUser
    /\ regs = 0
    /\ panicked = ""

\* the service when a worker that holds the guard goes on running: cloning
\* the path neither blocks nor fails, so the end of the block is reached
SpecLive == InitLive /\ [][Next]_vars /\ \A p \in Procs : WF_vars(Unlock(p))

\* two concurrent upserts and a request that begins after both were answered
SpecLong == InitLive /\ [][NextLong]_vars

(* ----------------------- sequential service ---------------------------- *)

\* a request is accepted only when no other request is being served
LockSeq(p, r) == (\A q \in Procs : pc[q] = "idle") /\ Lock(p, r)

\* Finish, remembering the request and the response that was returned
ReturnSeq(p) == Finish(p) /\ last' = [req |-> req[p], res |-> res[p]]

NextSeq ==
    \/ Boot
    \/ \E p \in Procs, r \in Requests : LockSeq(p, r)
    \/ \E p \in Procs : Unlock(p)
    \/ \E p \in Procs : GetBooks(p)
    \/ \E p \in Procs : GetBookWithQuery(p)
    \/ \E p \in Procs : GetBookById(p)
    \/ \E p \in Procs : ReadAndUpdate(p)
    \/ \E p \in Procs : CreateFile(p)
    \/ \E p \in Procs : WriteAll(p)
    \/ \E p \in Procs : CreateFileFails(p)
    \/ \E p \in Procs : WriteAllFails(p)
    \/ \E p \in Procs : Respond(p)
    \/ \E p \in Procs : ReturnSeq(p)

\* the service when clients send one request at a time
SpecSeq == Init /\ [][NextSeq]_vars

(* ----------------------- credential store alone ------------------------ *)

\* the credential files the program can be started with
SeedUserFiles ==
    {MissingUsers, NonTextUsers, MalformedUsers}
    \cup {UsersFileOf(us) : us \in SeqsUpTo(SeedUsers, MaxInitUsers)}

InitCred ==
    /\ InitBooks(MissingFile)
    /\ users_json \in SeedUserFiles
    /\ src_users_json \in {MissingUsers, users_json}
    /\ new_user = NoUser
    /\ regs = 0
    /\ panicked = ""

\* a call save_user(username, password)
Register(username, password) ==
    /\ regs < MaxRegs
    /\ \E salt \in Salts, written \in BOOLEAN : SaveUser(username, password, salt, written)
    /\ UNCHANGED bookVars
    /\ UNCHANGED booted

NextCred == \E u \in Usernames, pw \in Passwords : Register(u, pw)

\* save_user called repeatedly, for any user, on any seeded credential files
SpecCred == InitCred /\ [][NextCred]_vars


(* ============================ properties =============================== *)

\* no two records of the catalog share an id
DistinctIds(c) == \A i, j \in 1..Len(c) : c[i].id = c[j].id => i = j

\* worker p is serving an upsert and is between its read and the end of its write
InFlight(p) == pc[p] \in {"updated", "created"}

\* worker p holds a finished response of the given kind
Done(p, kind) == pc[p] = "done" /\ req[p].kind = kind

Quiescent == \A p \in Procs : pc[p] = "idle"

RECURSIVE ApplyAll(_, _)
\* the catalog after upserting the books of bs, one after another, into c
ApplyAll(c, bs) ==
    IF bs = <<>> THEN c ELSE ApplyAll(AddOrUpdate(c, Head(bs)), Tail(bs))

\* the orders in which n upserts can be applied
Orders(n) == {f \in [1..n -> 1..n] : \A i, j \in 1..n : f[i] = f[j] => i = j}

\* C1: in every upsert the store's lock is held from the read of the catalog
\* file until its write has completed, so at most one upsert is between its
\* read and its write.
C1_LockCoversReadModifyWrite ==
    /\ \A p \in Procs : InFlight(p) => lock = p
    /\ Cardinality({p \in Procs : InFlight(p)}) <= 1

\* C2: when every request has been answered, the persisted catalog is the
\* result of applying the upserts that succeeded one after another in some
\* order to the catalog the service started with (no lost update).
C2_UpsertsSerializable ==
    (Quiescent /\ Parses(seed)) =>
        /\ Parses(file)
        /\ \E f \in Orders(Len(acked)) :
              file.head = ApplyAll(seed.head, [i \in 1..Len(acked) |-> acked[f[i]]])

\* C3: every save_user that returns grows what load_users returns by exactly
\* the new record: load_users after the call is load_users before it with
\* new_user appended.
C3_RegisterGrowsByOne ==
    [][(regs' = regs + 1 /\ panicked' = "") =>
          LoadUsers(users_json') = Append(LoadUsers(users_json), new_user')]_vars

\* C4: started on a catalog with pairwise distinct ids (or an empty one), in
\* every interleaving, the catalog in the file whenever the file deserializes,
\* the buffer an upsert writes and the catalog it returns hold at most one
\* record per id.
C4_AtMostOneRecordPerId ==
    DistinctIds(seed.head) =>
        /\ Parses(file) => DistinctIds(file.head)
        /\ \A p \in Procs : DistinctIds(books[p]) /\ DistinctIds(res[p].body)

\* C4 witness: two upserts of the same id, which the seed did not hold, have
\* both been answered 200 and the file deserializes.
C4_Witness ==
    /\ Quiescent
    /\ seed.head = <<>> /\ Parses(seed)
    /\ Len(acked) = 2 /\ acked[1].id = acked[2].id
    /\ Parses(file) /\ Len(file.head) = 1

\* C5: no list, find_by_id or filter ever reads the catalog file while it is
\* partially written.
C5_NoTornReads ==
    \A p \in Procs :
        (pc[p] = "done" /\ req[p].kind \in {"list", "by_id", "query"}) => ~tornRead[p]

\* C6: an upsert of book b answered right after an upsert of the same b returns
\* the catalog the first one returned and leaves exactly that catalog in the file.
C6_UpsertIdempotent ==
    \A p \in Procs :
        (/\ Done(p, "upsert") /\ res[p].status = 200
         /\ last.req = req[p] /\ last.res.status = 200)
        => /\ res[p].body = last.res.body
           /\ Parses(file)
           /\ file.head = last.res.body

\* C6 witness: the second of two successive successful upserts of one book,
\* into a catalog that held another record as well.
C6_Witness ==
    \E p \in Procs :
        /\ Done(p, "upsert") /\ res[p].status = 200
        /\ last.req = req[p] /\ last.res.status = 200
        /\ Len(res[p].body) = 2

\* C7: an upsert whose id is in the catalog it read computes, and when its write
\* succeeds returns, a catalog of the same length in which the record at the
\* first index with that id is the new book and every other index holds what it
\* held.
C7_ReplaceInPlace ==
    \A p \in Procs :
        LET old == snap[p].books
            pos == Position(old, req[p].book.id)
        IN  (req[p].kind = "upsert" /\ snap[p].ok /\ pos # <<>>) =>
                /\ Len(books[p]) = Len(old)
                /\ books[p][pos[1]] = req[p].book
                /\ \A i \in 1..Len(old) : i # pos[1] => books[p][i] = old[i]
                /\ (pc[p] = "done" /\ res[p].status = 200) => res[p] = Ok(books[p])

\* C7 witness: an answered upsert that replaced the second of two records by a
\* book with other content.
C7_Witness ==
    \E p \in Procs :
        /\ Done(p, "upsert") /\ snap[p].ok /\ res[p].status = 200
        /\ Len(snap[p].books) = 2
        /\ Position(snap[p].books, req[p].book.id) = <<2>>
        /\ snap[p].books[2] # req[p].book

\* C8: filter answers 200 with exactly the records of the catalog it read that
\* satisfy (id absent or equal) and (tag absent or among the tags), in catalog
\* order; with both absent that is the whole catalog.
C8_FilterCorrect ==
    \A p \in Procs :
        LET Wanted(r) ==
                /\ (req[p].id = <<>> \/ r.id = req[p].id[1])
                /\ (req[p].tag = <<>> \/ \E i \in DOMAIN r.tags : r.tags[i] = req[p].tag[1])
        IN  (Done(p, "query") /\ snap[p].ok) =>
                /\ res[p].status = 200
                /\ res[p].body = SelectSeq(snap[p].books, Wanted)
                /\ (req[p].id = <<>> /\ req[p].tag = <<>>) => res[p].body = snap[p].books

\* C8 witness: a filter by id and tag together that kept one of two records.
C8_Witness ==
    \E p \in Procs :
        /\ Done(p, "query") /\ snap[p].ok
        /\ req[p].id # <<>> /\ req[p].tag # <<>>
        /\ Len(snap[p].books) = 2 /\ Len(res[p].body) = 1

\* C9: a find_by_id that reads a catalog file that deserializes answers 200 with
\* the records whose id is the argument, in catalog order: the empty sequence
\* when there is none, never an error.
C9_FindByIdNeverFails ==
    [][\A p \in Procs :
          (pc[p] = "path" /\ pc'[p] = "done" /\ req[p].kind = "by_id" /\ Parses(file)) =>
              LET Matches(r) == r.id = req[p].id[1]
              IN  /\ res'[p].status = 200
                  /\ res'[p].body = SelectSeq(file.head, Matches)
                  /\ (\A i \in 1..Len(file.head) : ~Matches(file.head[i]))
                         => res'[p].body = <<>>]_vars

\* C9 witness: find_by_id answered 200 with an empty body on a catalog of two
\* records.
C9_Witness ==
    \E p \in Procs :
        /\ Done(p, "by_id") /\ snap[p].ok
        /\ Len(snap[p].books) = 2
        /\ res[p] = Ok(<<>>)

\* C10: at the moment an upsert is answered 200 the catalog file deserializes to
\* exactly the sequence the upsert returns.
C10_ReturnsPersistedCatalog ==
    [][\A p \in Procs :
          (pc[p] = "written" /\ pc'[p] = "done") =>
              (Parses(file') /\ file'.head = res'[p].body)]_vars


\* C11: a handler that reads a catalog file that is missing answers with the
\* read error, one that reads a file that does not deserialize answers with the
\* format error; no catalog is substituted, the read leaves the file as it is,
\* and only an upsert whose read succeeded goes on to write.
C11_ReadFailureSurfaced ==
    [][\A p \in Procs :
          /\ (pc[p] = "path" /\ pc'[p] # "path" /\ ~Parses(file)) =>
                /\ res'[p] =
                      ErrorResponse(IF file.exists THEN "JsonParseError" ELSE "FileReadError")
                /\ pc'[p] = "done"
                /\ books'[p] = <<>>
                /\ file' = file
          /\ (pc[p] \in {"updated", "created"} /\ pc'[p] # pc[p]) => snap[p].ok]_vars

\* C11 witness: an upsert answered with the format error on the malformed file
\* the service was started with, the file still as it was.
C11_Witness ==
    \E p \in Procs :
        /\ Done(p, "upsert")
        /\ res[p] = ErrorResponse("JsonParseError")
        /\ seed = MalformedFile /\ file = seed


\* C12: an upsert whose overwrite of the file fails is answered with a failure,
\* and that failure is of a kind that is neither the read-error kind nor the
\* format-error kind.
C12_WriteErrorDistinct ==
    [][\A p \in Procs :
          (pc[p] \in {"updated", "created"} /\ pc'[p] = "done") =>
              /\ res'[p].status # 200
              /\ res'[p].err \notin {"FileReadError", "JsonParseError"}]_vars


\* C13: load_users never ends in an error: it returns the empty sequence when
\* users.json is missing and when it exists but does not parse, and the
\* deserialized users otherwise (save_user then writes them with new_user).
C13_LoadAllNeverFails ==
    /\ panicked # "load_users"
    /\ (regs > 0 /\ panicked = "") =>
          src_users_json.users =
              Append(IF users_json.exists /\ users_json.wellformed
                     THEN users_json.users
                     ELSE <<>>,
                     new_user)


\* C14: a worker holds the lock only while it clones the path: whenever it
\* holds the lock it later releases it, and past that point of its handler, on
\* the success and on the error paths alike, the lock is not held by it.
C14_LockReleased ==
    \A p \in Procs :
        /\ [](lock = p => <>(lock # p))
        /\ [](pc[p] # "locked" => lock # p)

\* C14 witness: two handlers have returned errors, one a read error and one a
\* write error, and the lock is free.
C14_Witness ==
    /\ lock = "free"
    /\ \E p, q \in Procs :
          /\ Done(p, "upsert") /\ snap[p].ok /\ res[p].status = 500
          /\ Done(q, "list") /\ ~snap[q].ok /\ res[q].status = 500


\* C15: an upsert whose id is not in the catalog it read writes and returns that
\* catalog with the new book appended as the last element: one record more,
\* every earlier record with its content and at its index.
C15_AppendWhenAbsent ==
    \A p \in Procs :
        LET old == snap[p].books
        IN  (/\ req[p].kind = "upsert" /\ snap[p].ok
             /\ \A i \in 1..Len(old) : old[i].id # req[p].book.id) =>
                /\ Len(books[p]) = Len(old) + 1
                /\ books[p][Len(old) + 1] = req[p].book
                /\ SubSeq(books[p], 1, Len(old)) = old
                /\ pc[p] = "done" /\ res[p].status = 200 => res[p].body = books[p]

\* C15 witness: an answered upsert of an id that a catalog of one record did
\* not hold.
C15_Witness ==
    \E p \in Procs :
        /\ Done(p, "upsert") /\ res[p].status = 200
        /\ Len(snap[p].books) = 1
        /\ snap[p].books[1].id # req[p].book.id
        /\ Len(res[p].body) = 2


\* C16: a list, find_by_id or filter that began after an upsert was answered
\* 200, and that read a catalog, read one that holds a record for the id of
\* that upsert (no operation removes a record, so every catalog that includes
\* the upsert's effect does).
C16_NoStaleReads ==
    \A p \in Procs :
        (pc[p] = "done" /\ req[p].kind \in {"list", "by_id", "query"} /\ snap[p].ok) =>
            \A i \in 1..started[p] :
                \E j \in 1..Len(snap[p].books) : snap[p].books[j].id = acked[i].id


\* C17: the file changes only in a step of a worker that serves an upsert and is
\* past its read: no step of list, find_by_id or filter, answered 200 or 500,
\* changes the catalog file.
C17_ReadsLeaveFile ==
    [][/\ file' # file =>
             \E p \in Procs :
                 /\ req[p].kind = "upsert"
                 /\ pc[p] \in {"updated", "created"}
                 /\ pc'[p] # pc[p]
       /\ \A p \in Procs :
             (req[p].kind \in {"list", "by_id", "query"} /\ pc'[p] # pc[p]) => file' = file]_vars

\* C17 witness: a filter was answered 500 on the file that an upsert in flight
\* had truncated, and the file is still as that upsert left it.
C17_Witness ==
    \E p, q \in Procs :
        /\ Done(p, "query") /\ res[p].status = 500 /\ tornRead[p]
        /\ req[q].kind = "upsert" /\ pc[q] = "created"
        /\ file = Truncated(seed)


\* C18: on one catalog, with or without records that share an id, find_by_id(X)
\* and filter(id = X, no tag) give the same response: the same records in the
\* same order.
C18_FindByIdIsFilterById ==
    \A p, q \in Procs :
        (/\ Done(p, "by_id") /\ Done(q, "query")
         /\ req[q].id = req[p].id /\ req[q].tag = <<>>
         /\ snap[p].ok /\ snap[q] = snap[p])
        => res[p] = res[q]

\* C18 witness: both were answered on a catalog of two records with the id
\* asked for, and both records were returned.
C18_Witness ==
    \E p, q \in Procs :
        /\ Done(p, "by_id") /\ Done(q, "query")
        /\ req[q].id = req[p].id /\ req[q].tag = <<>>
        /\ snap[p].ok /\ snap[q] = snap[p]
        /\ Len(snap[p].books) = 2 /\ ~DistinctIds(snap[p].books)
        /\ Len(res[p].body) = 2

\* C19: whatever catalog an upsert read, with or without records that share an
\* id, the catalog it writes and returns differs from it at one index at most:
\* the first index that holds the id, or a new last index when none does; no
\* record is removed and no other record with the id is touched.
C19_OnePositionChanges ==
    \A p \in Procs :
        LET old == snap[p].books
            new == books[p]
            pos == Position(old, req[p].book.id)
            changed == {i \in 1..Len(old) : new[i] # old[i]}
        IN  (req[p].kind = "upsert" /\ snap[p].ok) =>
                /\ Len(new) = IF pos = <<>> THEN Len(old) + 1 ELSE Len(old)
                /\ changed \subseteq {i \in 1..Len(old) : pos = <<i>>}
                /\ pos = <<>> => new[Len(new)] = req[p].book
                /\ pos # <<>> => new[pos[1]] = req[p].book
                /\ (pc[p] = "done" /\ res[p].status = 200) => res[p].body = new

\* C19 witness: an answered upsert into a catalog of two records with its id
\* changed the first and kept the second.
C19_Witness ==
    \E p \in Procs :
        /\ Done(p, "upsert") /\ res[p].status = 200
        /\ Len(snap[p].books) = 2
        /\ snap[p].books[1].id = req[p].book.id
        /\ snap[p].books[2].id = req[p].book.id
        /\ res[p].body[1] # snap[p].books[1]
        /\ res[p].body[2] = snap[p].books[2]
        /\ res[p].body[2] # req[p].book

=============================================================================
